---- MODULE Spec2Model ----
(***************************************************************************)
(* Morpheme-Builder: the question service (generateQuestion, getHint),     *)
(* the practice controller, the challenge controller and the App shell.    *)
(*                                                                         *)
(* Strings whose characters the code inspects (morpheme surface strings,   *)
(* answers, typed text) are sequences of one-character strings; strings    *)
(* the code only stores or displays (definitions, meanings, hint texts)    *)
(* are plain strings.                                                      *)
(***************************************************************************)
EXTENDS Integers, Sequences, FiniteSets, TLC

(***************************************************************************)
(* Strings.                                                                *)
(***************************************************************************)
Hyphen == "-"
Space == " "

UpperChars == <<"A", "B", "C", "D", "E", "F", "G", "H", "I", "J", "K", "L", "M",
                "N", "O", "P", "Q", "R", "S", "T", "U", "V", "W", "X", "Y", "Z">>
LowerChars == <<"a", "b", "c", "d", "e", "f", "g", "h", "i", "j", "k", "l", "m",
                "n", "o", "p", "q", "r", "s", "t", "u", "v", "w", "x", "y", "z">>

\* String.prototype.toLowerCase, character by character.
LowerChar(c) ==
    IF \E i \in 1..Len(UpperChars) : UpperChars[i] = c
    THEN LowerChars[CHOOSE i \in 1..Len(UpperChars) : UpperChars[i] = c]
    ELSE c

\* A comparison of the letters as they were typed.
toLowerCase_asTyped(s) == s

toLowerCase(s) == [i \in 1..Len(s) |-> LowerChar(s[i])]

\* String.prototype.trim: drops the leading and the trailing white space.
RECURSIVE trimStart(_)
trimStart(s) == IF s # <<>> /\ Head(s) = Space THEN trimStart(Tail(s)) ELSE s

RECURSIVE trimEnd(_)
trimEnd(s) ==
    IF s # <<>> /\ s[Len(s)] = Space THEN trimEnd(SubSeq(s, 1, Len(s) - 1)) ELSE s

trim(s) == trimEnd(trimStart(s))

startsWith(s, c) == Len(s) > 0 /\ s[1] = c
endsWith(s, c) == Len(s) > 0 /\ s[Len(s)] = c

\* Array.prototype.filter keeps the order: SelectSeq.

Range(s) == {s[i] : i \in 1..Len(s)}

Min(a, b) == IF a < b THEN a ELSE b

(***************************************************************************)
(* Morphemes and questions (types.ts).                                     *)
(***************************************************************************)
MorphemeTypes == {"prefix", "root", "suffix"}

Morpheme(m, meaning, type) == [morpheme |-> m, meaning |-> meaning, type |-> type]

m_un == <<"u", "n", "-">>
m_believe == <<"b", "e", "l", "i", "e", "v", "e">>
m_able == <<"-", "a", "b", "l", "e">>
m_re == <<"r", "e", "-">>
m_vis == <<"v", "i", "s">>
m_ion == <<"-", "i", "o", "n">>
m_pre == <<"p", "r", "e", "-">>
m_port == <<"p", "o", "r", "t">>
m_act == <<"a", "c", "t">>

w_unbelievable == <<"u", "n", "b", "e", "l", "i", "e", "v", "a", "b", "l", "e">>
w_react == <<"r", "e", "a", "c", "t">>
w_action == <<"a", "c", "t", "i", "o", "n">>

Question(answer, definition, parts, bank) ==
    [answer |-> answer, definition |-> definition, parts |-> parts, bank |-> bank]

\* The bank literal of the catch block, in source order.
\* A fallback bank whose last tile repeats re- in place of port.
fallbackBank_repeatedTile ==
    << Morpheme(m_un, "not", "prefix"),
       Morpheme(m_believe, "to accept as true", "root"),
       Morpheme(m_able, "capable of being", "suffix"),
       Morpheme(m_re, "again, back", "prefix"),
       Morpheme(m_vis, "to see", "root"),
       Morpheme(m_ion, "act or process", "suffix"),
       Morpheme(m_pre, "before", "prefix"),
       Morpheme(m_re, "again, back", "prefix") >>

fallbackBank ==
    << Morpheme(m_un, "not", "prefix"),
       Morpheme(m_believe, "to accept as true", "root"),
       Morpheme(m_able, "capable of being", "suffix"),
       Morpheme(m_re, "again, back", "prefix"),
       Morpheme(m_vis, "to see", "root"),
       Morpheme(m_ion, "act or process", "suffix"),
       Morpheme(m_pre, "before", "prefix"),
       Morpheme(m_port, "to carry", "root") >>

fallbackParts == <<m_un, m_believe, m_able>>

(***************************************************************************)
(* The shuffle.  bank.sort(() => Math.random() - 0.5) sorts with a         *)
(* comparator that answers at random, so the order it leaves is decided by *)
(* the random draws alone: a random source r for an array of n elements is *)
(* a permutation of 1..n, and the sort leaves at position k the element    *)
(* that was at position r[k].                                              *)
(***************************************************************************)
RandomSources(n) == Permutations(1..n)

\* A sort that loses the last element.
sortRandom_dropsLast(s, r) == [k \in 1..(Len(s) - 1) |-> s[r[k]]]

sortRandom(s, r) == [k \in 1..Len(s) |-> s[r[k]]]

(***************************************************************************)
(* What ai.models.generateContent can answer.  A response either throws    *)
(* or carries a text; a text is a string or not; a string is blank,        *)
(* unparseable or the JSON text of a value, with or without white space    *)
(* around it; a value is null, a number or an object that has some of the  *)
(* four fields of a Question.                                              *)
(***************************************************************************)
QuestionFields == {"answer", "definition", "parts", "bank"}

JsonObject(has, answer, definition, parts, bank) ==
    [kind |-> "object", has |-> has, answer |-> answer, definition |-> definition,
     parts |-> parts, bank |-> bank]

JsonNull == [JsonObject({}, <<>>, "", <<>>, <<>>) EXCEPT !.kind = "null"]
JsonNumber == [JsonObject({}, <<>>, "", <<>>, <<>>) EXCEPT !.kind = "number"]

JsonText(padded, body, value) == [padded |-> padded, body |-> body, value |-> value]

ApiThrows == [threw |-> TRUE, textIsString |-> FALSE, text |-> JsonText(FALSE, "blank", JsonNull)]
ApiNoText == [threw |-> FALSE, textIsString |-> FALSE, text |-> JsonText(FALSE, "blank", JsonNull)]
ApiText(t) == [threw |-> FALSE, textIsString |-> TRUE, text |-> t]
ApiJson(v) == ApiText(JsonText(FALSE, "json", v))

t_re == Morpheme(m_re, "again, back", "prefix")
t_act == Morpheme(m_act, "to do", "root")
t_ion == Morpheme(m_ion, "act or process", "suffix")
t_pre == Morpheme(m_pre, "before", "prefix")

def_react == "To act in response to something."
def_action == "The process of doing something."

\* Well-formed questions the service can be sent.
v_react == JsonObject(QuestionFields, w_react, def_react, <<m_re, m_act>>, <<t_re, t_act, t_pre>>)
v_action == JsonObject(QuestionFields, w_action, def_action, <<m_act, m_ion>>, <<t_act, t_ion, t_pre>>)

\* Responses of the right shape whose content breaks the prompt's rules: a bank
\* that lacks a part, a bank with the same tile twice, a bank shorter than the
\* parts, no parts at all, a tile whose type is none of the three.
v_lacksPart == [v_react EXCEPT !.bank = <<t_re, t_pre, t_ion>>]
v_twice == [v_react EXCEPT !.bank = <<t_re, t_act, t_act>>]
v_shortBank == [v_react EXCEPT !.bank = <<t_act>>]
v_noParts == [v_action EXCEPT !.parts = <<>>]
v_badType == [v_action EXCEPT !.bank = <<t_act, t_ion, Morpheme(m_pre, "before", "infix")>>]

AcceptableValues == {v_react, v_action, v_lacksPart, v_twice, v_shortBank, v_noParts, v_badType}

\* Responses the validation has to turn down.
MalformedOutcomes ==
    { ApiThrows, ApiNoText,
      ApiText(JsonText(FALSE, "blank", JsonNull)),
      ApiText(JsonText(TRUE, "blank", JsonNull)),
      ApiText(JsonText(FALSE, "garbage", JsonNull)),
      ApiJson(JsonNull), ApiJson(JsonNumber),
      ApiJson([v_react EXCEPT !.has = QuestionFields \ {"answer"}]),
      ApiJson([v_react EXCEPT !.answer = <<>>]),
      ApiJson([v_react EXCEPT !.has = QuestionFields \ {"definition"}]),
      ApiJson([v_react EXCEPT !.has = QuestionFields \ {"parts"}]),
      ApiJson([v_react EXCEPT !.has = QuestionFields \ {"bank"}]),
      ApiJson([v_react EXCEPT !.bank = <<>>]) }

ApiOutcomes ==
    MalformedOutcomes \cup {ApiJson(v) : v \in AcceptableValues}
        \cup {ApiText(JsonText(TRUE, "json", v_react))}

(***************************************************************************)
(* generateQuestion (geminiService.ts).                                    *)
(***************************************************************************)
Difficulties == {"Easy", "Medium", "Hard"}

NoQuestion == Question(<<>>, "", <<>>, <<>>)

\* Completion records of a block: it returns a value or throws.
Return(v) == [threw |-> FALSE, value |-> v]
Throw == [threw |-> TRUE, value |-> NoQuestion]

\* jsonText.trim()
trimText(t) == [t EXCEPT !.padded = FALSE]

\* JSON.parse: a SyntaxError on the empty string and on text that is no JSON.
JSONParse(t) ==
    IF t.body = "json" THEN [threw |-> FALSE, value |-> t.value]
    ELSE [threw |-> TRUE, value |-> JsonNull]

\* Reading a property of the parsed value: undefined on a number and on an
\* object without the field.  (On null the read itself throws.)
Missing(v, f) == v.kind # "object" \/ f \notin v.has

\* The condition of the if statement that follows JSON.parse.
InvalidFormat(v) ==
    \/ Missing(v, "answer") \/ v.answer = <<>>
    \/ Missing(v, "definition") \/ v.definition = ""
    \/ Missing(v, "parts")
    \/ Missing(v, "bank") \/ Len(v.bank) = 0

\* The body of the try block, up to the sort.
Validated(api) ==
    IF api.threw THEN Throw
    ELSE IF ~api.textIsString \/ trimText(api.text).body = "blank" THEN Throw
    ELSE LET parsed == JSONParse(trimText(api.text)) IN
         IF parsed.threw THEN Throw
         ELSE IF parsed.value.kind = "null" THEN Throw
         ELSE IF InvalidFormat(parsed.value) THEN Throw
         ELSE Return(Question(parsed.value.answer, parsed.value.definition,
                              parsed.value.parts, parsed.value.bank))

\* The array the call sorts: the bank of the response, or the fallback bank.
ArrayToSort(api) ==
    IF Validated(api).threw THEN fallbackBank ELSE Validated(api).value.bank

tryBlock(api, r) ==
    LET v == Validated(api) IN
    IF v.threw THEN Throw
    ELSE Return([v.value EXCEPT !.bank = sortRandom(v.value.bank, r)])

catchBlock(r) ==
    Return(Question(w_unbelievable, "Not capable of being believed.",
                    fallbackParts, sortRandom(fallbackBank, r)))

\* A catch that covers the generative call alone, not the validation after it.
generateQuestion_catchApiOnly(difficulty, api, r) ==
    IF api.threw THEN catchBlock(r) ELSE tryBlock(api, r)

\* try { ... } catch (error) { ... }: the completion of the whole body.
generateQuestion(difficulty, api, r) ==
    LET t == tryBlock(api, r) IN
    IF t.threw THEN catchBlock(r) ELSE t

(***************************************************************************)
(* getHint (geminiService.ts).                                             *)
(***************************************************************************)
HintNotAvailable == "Hint not available at the moment."
HintCatch == "The root morphemes are the core building blocks of the word's meaning."

HintTexts == {"The core of this word is 'act', which means 'to do'.", ""}

HintThrows == [threw |-> TRUE, textIsString |-> FALSE, text |-> ""]
HintNoText == [threw |-> FALSE, textIsString |-> FALSE, text |-> ""]
HintText(t) == [threw |-> FALSE, textIsString |-> TRUE, text |-> t]

HintOutcomes == {HintThrows, HintNoText} \cup {HintText(t) : t \in HintTexts}

\* A JavaScript value that is a string or undefined.
StringValue(t) == [type |-> "string", s |-> t]
UndefinedValue == [type |-> "undefined", s |-> ""]

ReturnHint(v) == [threw |-> FALSE, value |-> v]
ThrowHint == [threw |-> TRUE, value |-> UndefinedValue]

hintTryBlock(api) ==
    IF api.threw THEN ThrowHint
    ELSE IF api.textIsString THEN ReturnHint(StringValue(api.text))
    ELSE ReturnHint(StringValue(HintNotAvailable))

\* The try block without its catch.
getHint_noCatch(parts, api) == hintTryBlock(api)

getHint(parts, api) ==
    LET t == hintTryBlock(api) IN
    IF t.threw THEN ReturnHint(StringValue(HintCatch)) ELSE t

(***************************************************************************)
(* A promise returned by an async function: it resolves with the value the *)
(* body returns and rejects when the body throws.                          *)
(***************************************************************************)
Settle(completion) == IF completion.threw THEN "rejected" ELSE "resolved"

(***************************************************************************)
(* Bounds of the model.                                                    *)
(***************************************************************************)
\* Tiles the construction zone takes before a further drop is refused.
MaxZone == 2
\* Timeouts one controller can have pending before a further one is refused.
MaxTimeouts == 2
\* Controllers that were left with timeouts still pending.
MaxZombies == 1
\* Orders out of which a controller's question can come shuffled.
MaxShuffles == 2
\* generateQuestion calls of ChallengeMode outstanding before a further one is refused.
MaxCalls == 2
\* getHint calls of ChallengeMode outstanding before a further one is refused.
MaxHintCalls == 1
\* Calls and timeouts that ChallengeMode instances the player left can have under way.
MaxLeftover == 1
\* The score above which a correct answer is refused.
MaxScore == 10
\* Seconds of a challenge game (180 in the source).
GAME_DURATION == 2
\* Calls of generateQuestion whose Question objects are kept side by side.
MaxRuns == 2

(***************************************************************************)
(* State.                                                                  *)
(***************************************************************************)
VARIABLES
    svc,                \* one call of the service, from the call to its promise settling
    gameMode,           \* App: the screen shown
    selectedDifficulty, \* App: the difficulty last selected
    practice,           \* the mounted PracticeMode: state, refs, calls, timeouts
    zombies,            \* PracticeMode instances left with timeouts pending
    challenge,          \* the mounted ChallengeMode: state, calls, timeouts
    storage,            \* localStorage: the number under 'morphemeHighScore'
    leftover,           \* calls and timeouts of ChallengeMode instances that were left
    heap,               \* the Question objects that calls of generateQuestion created
    drag                \* draggedItemData / touchDragData: the tile a drag in progress holds

vars == <<svc, gameMode, selectedDifficulty, practice, zombies, challenge, storage, leftover,
          heap, drag>>
svcVars == <<svc>>
appVars == <<gameMode, selectedDifficulty>>
practiceVars == <<practice, zombies>>
challengeVars == <<challenge, storage, leftover>>

(***************************************************************************)
(* PracticeMode.                                                           *)
(***************************************************************************)
Null == NoQuestion
NullAnswer == <<>>

NoFeedback == [message |-> "", type |-> "none"]
Feedback(message, type) == [message |-> message, type |-> type]

\* useState / useRef initial values; effectsPending: a render was committed
\* whose passive effects have not run; calls: the generateQuestion calls
\* awaited; timeouts: the setTimeout callbacks pending that were set while the
\* presented question was shown; staleTimeouts: those set while an earlier
\* question was shown.
PracticeInitial(difficulty) ==
    [ difficulty |-> difficulty,
      question |-> Null,
      loading |-> TRUE,
      droppedMorphemes |-> <<>>,
      spelledWord |-> <<>>,
      feedback |-> NoFeedback,
      morphemesAreCorrect |-> FALSE,
      fetchInProgress |-> FALSE,
      questionAnswerRef |-> NullAnswer,
      effectsPending |-> FALSE,
      calls |-> <<>>,
      timeouts |-> 0,
      staleTimeouts |-> 0 ]

NotMounted == PracticeInitial("Medium")

\* A call carries its arguments: generateQuestion(difficulty, excludeAnswer).
CallArgs(difficulty, excludeAnswer) ==
    [difficulty |-> difficulty, excludeAnswer |-> excludeAnswer]

\* A fetch that leaves the construction zone as it is.
fetchNewQuestion_keepsZone(p) ==
    IF p.fetchInProgress THEN p
    ELSE [p EXCEPT !.fetchInProgress = TRUE,
                   !.loading = TRUE,
                   !.feedback = NoFeedback,
                   !.spelledWord = <<>>,
                   !.morphemesAreCorrect = FALSE,
                   !.question = Null,
                   !.effectsPending = TRUE,
                   !.calls = Append(@, CallArgs(p.difficulty, p.questionAnswerRef))]

\* fetchNewQuestion up to the await.
fetchNewQuestion(p) ==
    IF p.fetchInProgress THEN p
    ELSE [p EXCEPT !.fetchInProgress = TRUE,
                   !.loading = TRUE,
                   !.feedback = NoFeedback,
                   !.droppedMorphemes = <<>>,
                   !.spelledWord = <<>>,
                   !.morphemesAreCorrect = FALSE,
                   !.question = Null,
                   !.effectsPending = TRUE,
                   !.calls = Append(@, CallArgs(p.difficulty, p.questionAnswerRef))]

\* newQuestion.bank.map(m => ({ ...m, id: `${m.morpheme}-${Math.random()}` })):
\* the draws of one map are taken to differ from tile to tile.
withIds(bank) ==
    [i \in 1..Len(bank) |->
        [morpheme |-> bank[i].morpheme, meaning |-> bank[i].meaning,
         type |-> bank[i].type, id |-> <<bank[i].morpheme, i>>]]

\* A resumption without the finally block.
fetchNewQuestionResumed_noFinally(p, c) ==
    IF c.threw THEN p
    ELSE [p EXCEPT !.question = [c.value EXCEPT !.bank = withIds(c.value.bank)],
                   !.effectsPending = TRUE,
                   !.staleTimeouts = @ + p.timeouts,
                   !.timeouts = 0]

\* fetchNewQuestion from the await on, the call having completed with c.
fetchNewQuestionResumed(p, c) ==
    LET shown == IF c.threw THEN p.question
                 ELSE [c.value EXCEPT !.bank = withIds(c.value.bank)]
    IN [p EXCEPT !.question = shown,
                 !.loading = FALSE,
                 !.fetchInProgress = FALSE,
                 !.effectsPending = TRUE,
                 !.staleTimeouts = IF c.threw THEN @ ELSE @ + p.timeouts,
                 !.timeouts = IF c.threw THEN @ ELSE 0]

\* droppedMorphemes.map(m => m.morpheme)
Surfaces(tiles) == [i \in 1..Len(tiles) |-> tiles[i].morpheme]

\* The two effects that depend on the question: the one that keeps
\* questionAnswerRef and the one that judges the assembly.
\* Effects that judge the assembly by the number of tiles alone.
runEffects_lengthOnly(p) ==
    [p EXCEPT !.questionAnswerRef = IF p.question = Null THEN NullAnswer ELSE p.question.answer,
              !.morphemesAreCorrect =
                    IF p.question = Null THEN FALSE
                    ELSE Len(p.droppedMorphemes) = Len(p.question.parts),
              !.effectsPending = FALSE]

runEffects(p) ==
    [p EXCEPT !.questionAnswerRef = IF p.question = Null THEN NullAnswer ELSE p.question.answer,
              !.morphemesAreCorrect =
                    IF p.question = Null THEN FALSE
                    ELSE Surfaces(p.droppedMorphemes) = p.question.parts,
              !.effectsPending = FALSE]

handleCheckSpelling(p) ==
    IF p.question = Null THEN p
    ELSE IF toLowerCase(trim(p.spelledWord)) = toLowerCase(p.question.answer)
    THEN [p EXCEPT !.feedback = Feedback("Correct! Well done!", "correct"),
                   !.timeouts = @ + 1]
    ELSE [p EXCEPT !.feedback =
            Feedback("Not quite right. Check your spelling or morpheme order.", "incorrect")]

handleSkipQuestion(p) ==
    IF p.loading \/ p.question = Null THEN p
    ELSE [p EXCEPT !.feedback = Feedback("The answer was: ${question.answer}", "incorrect"),
                   !.timeouts = @ + 1]

getBankMorphemes(p) ==
    IF p.question = Null THEN <<>>
    ELSE LET droppedIds == {p.droppedMorphemes[i].id : i \in 1..Len(p.droppedMorphemes)}
             NotDropped(m) == m.id \notin droppedIds
         IN SelectSeq(p.question.bank, NotDropped)

\* current.findIndex(m => m.id === id), counted from 1; 0 when there is none.
findIndex(tiles, id) ==
    IF \E i \in 1..Len(tiles) : tiles[i].id = id
    THEN CHOOSE i \in 1..Len(tiles) :
            tiles[i].id = id /\ \A j \in 1..(i - 1) : tiles[j].id # id
    ELSE 0

\* newArr.splice(index, 0, item) with index counted from 0; an index of -1
\* counts from the end, an index past the end appends.
splice(arr, index, item) ==
    LET at == IF index < 0 THEN (IF Len(arr) + index < 0 THEN 0 ELSE Len(arr) + index)
              ELSE IF index > Len(arr) THEN Len(arr) ELSE index
    IN SubSeq(arr, 1, at) \o <<item>> \o SubSeq(arr, at + 1, Len(arr))

\* A drop that inserts the tile without taking it out of the zone first.
handleDrop_noFilter(p, droppedItem, afterId) ==
    LET dropIndex == IF afterId # <<>>
                     THEN findIndex(p.droppedMorphemes, afterId) - 1
                     ELSE Len(p.droppedMorphemes)
    IN [p EXCEPT !.droppedMorphemes = splice(p.droppedMorphemes, dropIndex, droppedItem)]

\* handleDrop: the dragged tile lands before the zone tile that carries the
\* insertion mark (afterId), or last when no tile carries it (afterId = <<>>).
handleDrop(p, droppedItem, afterId) ==
    LET dropIndex == IF afterId # <<>>
                     THEN findIndex(p.droppedMorphemes, afterId) - 1
                     ELSE Len(p.droppedMorphemes)
        Others(m) == m.id # droppedItem.id
        newArr == SelectSeq(p.droppedMorphemes, Others)
    IN [p EXCEPT !.droppedMorphemes = splice(newArr, dropIndex, droppedItem)]

handleBankDrop(p, draggedItem, source) ==
    LET Others(m) == m.id # draggedItem.id IN
    IF source = "zone"
    THEN [p EXCEPT !.droppedMorphemes = SelectSeq(p.droppedMorphemes, Others)]
    ELSE p

\* The main screen is rendered, not the loading screen.
PracticeScreen(p) == ~(p.loading \/ p.question = Null)

(***************************************************************************)
(* The random sources a controller's question can come shuffled by: the    *)
(* first MaxShuffles rotations.  A controller never reads the order of the *)
(* bank, it only displays it.                                              *)
(***************************************************************************)
Rotation(n, j) == [k \in 1..n |-> ((k - 1 + j) % n) + 1]

SampledSources(n) == {Rotation(n, j) : j \in 0..(Min(n, MaxShuffles) - 1)}

\* What the player can type: the answer in capitals between blanks, and a wrong word.
UpperChar(c) ==
    IF \E i \in 1..Len(LowerChars) : LowerChars[i] = c
    THEN UpperChars[CHOOSE i \in 1..Len(LowerChars) : LowerChars[i] = c]
    ELSE c

Shouted(w) == <<Space>> \o [i \in 1..Len(w) |-> UpperChar(w[i])] \o <<Space>>

w_wrong == <<"a", "c", "t", "o", "r">>

TypedWords(answer) == {Shouted(answer), w_wrong}

\* Answers of the generative call sampled where the full set is too large: a
\* failure, which yields the fallback question, and a well-formed question.
SampledOutcomes == {ApiThrows, ApiJson(v_react)}

\* Answers to a hint request, sampled: a failure and a text.
SampledHintOutcomes ==
    {HintThrows, HintText("The core of this word is 'act', which means 'to do'.")}

(***************************************************************************)
(* ChallengeMode.                                                          *)
(***************************************************************************)
Digits == <<"0", "1", "2", "3", "4", "5", "6", "7", "8", "9">>

\* score.toString() of a number that is not negative
RECURSIVE toString(_)
toString(n) ==
    IF n < 10 THEN <<Digits[n + 1]>>
    ELSE toString(n \div 10) \o <<Digits[(n % 10) + 1]>>

DigitValue(c) == (CHOOSE i \in 1..10 : Digits[i] = c) - 1

\* parseInt of a string of digits
RECURSIVE parseInt(_)
parseInt(s) ==
    IF Len(s) = 1 THEN DigitValue(s[1])
    ELSE parseInt(SubSeq(s, 1, Len(s) - 1)) * 10 + DigitValue(s[Len(s)])

\* localStorage.getItem('morphemeHighScore') || '0': the item is null (here
\* <<>>) until it is set.
getItemOrZero(stored) == IF stored = <<>> THEN <<"0">> ELSE stored

\* useState initial values; calls: the generateQuestion calls awaited;
\* hintCalls: the arguments of the getHint calls awaited; timeouts: the
\* setTimeout callbacks pending.
ChallengeInitial ==
    [ gameState |-> "start",
      question |-> Null,
      loading |-> FALSE,
      score |-> 0,
      timer |-> GAME_DURATION,
      highScore |-> 0,
      userAnswer |-> <<>>,
      feedback |-> NoFeedback,
      hint |-> "",
      hintUsed |-> FALSE,
      calls |-> 0,
      hintCalls |-> <<>>,
      timeouts |-> 0 ]

\* What ChallengeMode instances that were unmounted still have under way.
NoLeftover == [calls |-> 0, timeouts |-> 0]

\* The first render and the mount effect, which reads the stored high score.
mountChallenge(stored) ==
    [ChallengeInitial EXCEPT !.highScore = parseInt(getItemOrZero(stored))]

\* ChallengeMode's fetchNewQuestion up to the await.
challengeFetchNewQuestion(c) ==
    [c EXCEPT !.loading = TRUE,
              !.feedback = NoFeedback,
              !.hint = "",
              !.userAnswer = <<>>,
              !.hintUsed = FALSE,
              !.calls = @ + 1]

\* ChallengeMode's fetchNewQuestion from the await on: a rejection leaves the
\* function at the await.
challengeFetchResumed(c, completion) ==
    IF completion.threw THEN c
    ELSE [c EXCEPT !.question = completion.value, !.loading = FALSE]

\* endTheGame: the state of the controller and of localStorage after it.
\* An end of game that stores the score whatever is stored.
endTheGame_alwaysWrites(c, stored) ==
    [challenge |-> [c EXCEPT !.gameState = "end", !.highScore = c.score],
     storage |-> toString(c.score)]

endTheGame(c, stored) ==
    LET currentHighScore == parseInt(getItemOrZero(stored)) IN
    IF c.score > currentHighScore
    THEN [challenge |-> [c EXCEPT !.gameState = "end", !.highScore = c.score],
          storage |-> toString(c.score)]
    ELSE [challenge |-> [c EXCEPT !.gameState = "end"], storage |-> stored]

\* An interval callback that ends the game without writing the 0.
intervalCallback_keepsLastSecond(c, stored) ==
    IF c.timer <= 1 THEN endTheGame(c, stored)
    ELSE [challenge |-> [c EXCEPT !.timer = @ - 1], storage |-> stored]

\* An interval callback that writes the 0 and leaves the game playing.
intervalCallback_noEnd(c, stored) ==
    [challenge |-> [c EXCEPT !.timer = IF @ <= 1 THEN 0 ELSE @ - 1], storage |-> stored]

\* The callback of the interval: setTimer's updater.
intervalCallback(c, stored) ==
    IF c.timer <= 1 THEN endTheGame([c EXCEPT !.timer = 0], stored)
    ELSE [challenge |-> [c EXCEPT !.timer = @ - 1], storage |-> stored]

startGame(c) ==
    challengeFetchNewQuestion(
        [c EXCEPT !.score = 0, !.timer = GAME_DURATION, !.gameState = "playing"])

CorrectMessage(points) ==
    IF points = 10 THEN "Correct! +10 points" ELSE "Correct! +5 points"

\* A check that takes a blank answer for a wrong one.
handleCheckAnswer_blankIsWrong(c) ==
    IF c.question = Null THEN c
    ELSE IF toLowerCase(trim(c.userAnswer)) = toLowerCase(c.question.answer)
    THEN LET points == IF c.hintUsed THEN 5 ELSE 10 IN
         [c EXCEPT !.score = @ + points,
                   !.feedback = Feedback(CorrectMessage(points), "correct"),
                   !.timeouts = @ + 1,
                   !.userAnswer = <<>>]
    ELSE [c EXCEPT !.feedback = Feedback("Not quite. Try again!", "incorrect"),
                   !.userAnswer = <<>>]

handleCheckAnswer(c) ==
    IF c.question = Null \/ trim(c.userAnswer) = <<>> THEN c
    ELSE IF toLowerCase(trim(c.userAnswer)) = toLowerCase(c.question.answer)
    THEN LET points == IF c.hintUsed THEN 5 ELSE 10 IN
         [c EXCEPT !.score = @ + points,
                   !.feedback = Feedback(CorrectMessage(points), "correct"),
                   !.timeouts = @ + 1,
                   !.userAnswer = <<>>]
    ELSE [c EXCEPT !.feedback = Feedback("Not quite. Try again!", "incorrect"),
                   !.userAnswer = <<>>]

\* p => !p.startsWith('-') && !p.endsWith('-')
notAffix(p) == ~startsWith(p, Hyphen) /\ ~endsWith(p, Hyphen)

\* A hint request that passes the parts as they are.
handleShowHint_unfiltered(c) ==
    IF c.question = Null \/ c.hintUsed THEN c
    ELSE [c EXCEPT !.hintUsed = TRUE,
                   !.hint = "Generating hint...",
                   !.hintCalls = Append(@, c.question.parts)]

\* handleShowHint up to the await.
handleShowHint(c) ==
    IF c.question = Null \/ c.hintUsed THEN c
    ELSE [c EXCEPT !.hintUsed = TRUE,
                   !.hint = "Generating hint...",
                   !.hintCalls = Append(@, SelectSeq(c.question.parts, notAffix))]

\* `${hintText}`
templateString(v) == IF v.type = "string" THEN v.s ELSE "undefined"

\* handleShowHint from the await on.
handleShowHintResumed(c, completion) ==
    IF completion.threw THEN c
    ELSE [c EXCEPT !.hint = templateString(completion.value)]

\* The end screen: {score > highScore && score > 0 && <p>New High Score!</p>}
showsNewHighScore(c) == c.gameState = "end" /\ c.score > c.highScore /\ c.score > 0

\* A Skip that takes its 2 points whatever the score.
skipClicked_belowZero(c) ==
    challengeFetchNewQuestion([c EXCEPT !.score = @ - 2])

\* The Skip button: setScore(s => Math.max(0, s-2)); fetchNewQuestion()
skipClicked(c) ==
    challengeFetchNewQuestion([c EXCEPT !.score = IF @ - 2 < 0 THEN 0 ELSE @ - 2])

(***************************************************************************)
(* Question objects.  A Question is an object that refers to two arrays,   *)
(* parts and bank; a caller holds a reference to the object.  objects and  *)
(* arrays are the cells created so far, a reference is an index into them. *)
(* calls lists the calls of generateQuestion made so far: what each was    *)
(* given, the value its promise resolved to, the reference it returned,    *)
(* and whether the practice controller has tagged the bank since.          *)
(***************************************************************************)
HeapEmpty == [objects |-> <<>>, arrays |-> <<>>, last |-> 0, calls |-> <<>>]

\* The Question a reference leads to.
Deref(h, ref) ==
    LET o == h.objects[ref] IN
    Question(o.answer, o.definition, h.arrays[o.parts], h.arrays[o.bank])

\* One object for every call, every fallback the same: a fallback question
\* kept outside the function and sorted again on each failure.
newQuestion_sharedFallback(h, q) ==
    LET earlier == {o \in 1..Len(h.objects) : h.objects[o].answer = q.answer}
        parts == Len(h.arrays) + 1
        bank == Len(h.arrays) + 2
    IN IF q.answer = w_unbelievable /\ earlier # {}
       THEN LET o == CHOOSE o \in earlier : TRUE IN
            [h EXCEPT !.arrays[h.objects[o].bank] = q.bank, !.last = o]
       ELSE [h EXCEPT !.objects = Append(@, [answer |-> q.answer,
                                             definition |-> q.definition,
                                             parts |-> parts, bank |-> bank]),
                      !.arrays = @ \o <<q.parts, q.bank>>,
                      !.last = Len(h.objects) + 1]

\* The cells one call creates for the Question q it returns: JSON.parse
\* builds a new object with new arrays, and so do the literals of the catch
\* block; the sort works in place on the new bank array.
newQuestion(h, q) ==
    LET parts == Len(h.arrays) + 1
        bank == Len(h.arrays) + 2
    IN [h EXCEPT !.objects = Append(@, [answer |-> q.answer,
                                        definition |-> q.definition,
                                        parts |-> parts, bank |-> bank]),
                 !.arrays = @ \o <<q.parts, q.bank>>,
                 !.last = Len(h.objects) + 1]

\* newQuestion.bank = newQuestion.bank.map((m, i) => ({ ...m, id: ... })):
\* map builds a new array and the bank field is set to it.
tagBank(h, ref) ==
    [h EXCEPT !.arrays = Append(@, withIds(h.arrays[h.objects[ref].bank])),
              !.objects[ref].bank = Len(h.arrays) + 1]

(***************************************************************************)
(* A drag in progress.  handleDragStart and handleTouchStart store the     *)
(* tile and where it was taken from in a ref; the drop handlers read it,   *)
(* handleDragEnd and handleTouchEnd clear it.  The ref outlives the        *)
(* question: a tile taken from one question can be dropped on the next.    *)
(* Ids are compared for equality only, and the ids of a new bank are new   *)
(* draws of Math.random: a tile held while a new question arrives is       *)
(* written with position 0 in its id, which no tile of a bank has.         *)
(***************************************************************************)
NoTile == [morpheme |-> <<>>, meaning |-> "", type |-> "none", id |-> <<>>]

NoDrag == [held |-> FALSE, morpheme |-> NoTile, source |-> "none"]

\* draggedItemData.current = { morpheme, source }
handleDragStart(morpheme, source) ==
    [held |-> TRUE, morpheme |-> morpheme, source |-> source]

\* The tile of a drag as it compares with the tiles of a bank tagged later.
heldOver(d) ==
    IF d.held THEN [d EXCEPT !.morpheme.id = <<d.morpheme.morpheme, 0>>] ELSE d

\* handleTouchEnd outside the drop zone, handleBankDrop: a tile taken from
\* the zone leaves it.
handleTouchEndOutside(p, d) == handleBankDrop(p, d.morpheme, d.source)

(***************************************************************************)
(* The service on its own: a caller invokes generateQuestion or getHint,   *)
(* the generative call answers, the promise settles.                       *)
(***************************************************************************)
HintArgs == {<<>>, <<m_act>>, <<m_re, m_ion>>, <<m_re, m_act, m_ion>>}

SvcIdle ==
    [op |-> "none", status |-> "idle", difficulty |-> "Medium", parts |-> <<>>,
     api |-> ApiThrows, hintApi |-> HintThrows, question |-> NoQuestion,
     hint |-> UndefinedValue]

Init ==
    /\ svc = SvcIdle
    /\ gameMode = "MENU"
    /\ selectedDifficulty = "Medium"
    /\ practice = NotMounted
    /\ zombies = <<>>
    /\ challenge = ChallengeInitial
    /\ storage = <<>>
    /\ leftover = NoLeftover
    /\ heap = HeapEmpty
    /\ drag = NoDrag

SvcCallGenerateQuestion ==
    /\ svc.status = "idle"
    /\ \E d \in Difficulties :
        svc' = [SvcIdle EXCEPT !.op = "generateQuestion", !.status = "pending",
                               !.difficulty = d]
    /\ UNCHANGED <<heap, drag, appVars, practiceVars, challengeVars>>

SvcSettleGenerateQuestion ==
    /\ svc.status = "pending" /\ svc.op = "generateQuestion"
    /\ \E api \in ApiOutcomes : \E r \in RandomSources(Len(ArrayToSort(api))) :
        LET c == generateQuestion(svc.difficulty, api, r) IN
        svc' = [svc EXCEPT !.status = Settle(c), !.api = api, !.question = c.value]
    /\ UNCHANGED <<heap, drag, appVars, practiceVars, challengeVars>>

SvcCallGetHint ==
    /\ svc.status = "idle"
    /\ \E parts \in HintArgs :
        svc' = [SvcIdle EXCEPT !.op = "getHint", !.status = "pending", !.parts = parts]
    /\ UNCHANGED <<heap, drag, appVars, practiceVars, challengeVars>>

SvcSettleGetHint ==
    /\ svc.status = "pending" /\ svc.op = "getHint"
    /\ \E api \in HintOutcomes :
        LET c == getHint(svc.parts, api) IN
        svc' = [svc EXCEPT !.status = Settle(c), !.hintApi = api, !.hint = c.value]
    /\ UNCHANGED <<heap, drag, appVars, practiceVars, challengeVars>>

SvcForget ==
    /\ svc.status \in {"resolved", "rejected"}
    /\ svc' = SvcIdle
    /\ UNCHANGED <<heap, drag, appVars, practiceVars, challengeVars>>

SvcNext ==
    \/ SvcCallGenerateQuestion
    \/ SvcSettleGenerateQuestion
    \/ SvcCallGetHint
    \/ SvcSettleGetHint
    \/ SvcForget

(***************************************************************************)
(* App (types.ts).                                                         *)
(***************************************************************************)
OpenDifficultySelection ==
    /\ gameMode = "MENU"
    /\ gameMode' = "DIFFICULTY_SELECTION"
    /\ UNCHANGED <<heap, drag, challengeVars, svc, selectedDifficulty, practiceVars>>

DifficultyBack ==
    /\ gameMode = "DIFFICULTY_SELECTION"
    /\ gameMode' = "MENU"
    /\ UNCHANGED <<heap, drag, challengeVars, svc, selectedDifficulty, practiceVars>>

\* PracticeMode mounts: the first render, then its effects.  Under StrictMode
\* React runs the mount effects a second time.
mountPractice(difficulty, strict) ==
    LET once == fetchNewQuestion(PracticeInitial(difficulty))
        twice == IF strict THEN fetchNewQuestion(once) ELSE once
    IN [twice EXCEPT !.effectsPending = FALSE]

\* handleSelectDifficulty, for the difficulties the player picks from
SelectDifficultyFrom(difficulties) ==
    /\ gameMode = "DIFFICULTY_SELECTION"
    /\ \E d \in difficulties, strict \in BOOLEAN :
        /\ selectedDifficulty' = d
        /\ practice' = mountPractice(d, strict)
    /\ gameMode' = "PRACTICE"
    /\ UNCHANGED <<heap, drag, challengeVars, svc, zombies>>

SelectDifficulty == SelectDifficultyFrom(Difficulties)

\* The player keeps to the difficulty the App starts with.
SelectDifficultySampled == SelectDifficultyFrom({"Medium"})

\* What is left of a controller that was unmounted: its difficulty, its
\* fetchInProgress ref, its calls and its timeouts.  React drops the state
\* updates of an unmounted component, and nothing reads what such a
\* controller passes as excludeAnswer (generateQuestion takes one parameter).
Unmounted(p) ==
    [PracticeInitial(p.difficulty) EXCEPT
        !.fetchInProgress = p.fetchInProgress,
        !.calls = [i \in 1..Len(p.calls) |-> CallArgs(p.calls[i].difficulty, NullAnswer)],
        !.timeouts = p.timeouts + p.staleTimeouts]

HasWork(p) == p.timeouts + p.staleTimeouts > 0 \/ p.calls # <<>>

\* onBack of PracticeMode
PracticeBack ==
    /\ gameMode = "PRACTICE"
    /\ PracticeScreen(practice)
    /\ HasWork(practice) => Len(zombies) < MaxZombies
    /\ gameMode' = "DIFFICULTY_SELECTION"
    /\ zombies' = IF HasWork(practice) THEN Append(zombies, Unmounted(practice)) ELSE zombies
    /\ practice' = NotMounted
    /\ UNCHANGED <<heap, drag, challengeVars, svc, selectedDifficulty>>

(***************************************************************************)
(* PracticeMode: the steps of the mounted controller.                      *)
(***************************************************************************)
PendingTimeouts(p) == p.timeouts + p.staleTimeouts

\* The player can act: the main screen is shown and React has run the effects.
CanAct == gameMode = "PRACTICE" /\ PracticeScreen(practice) /\ ~practice.effectsPending

RemoveAt(seq, i) == SubSeq(seq, 1, i - 1) \o SubSeq(seq, i + 1, Len(seq))

\* A timeout set by Check or Next Word on the presented question fires.
PTimeoutFires ==
    /\ gameMode = "PRACTICE"
    /\ practice.timeouts > 0
    /\ practice' = fetchNewQuestion([practice EXCEPT !.timeouts = @ - 1])
    /\ UNCHANGED <<heap, drag, challengeVars, svc, appVars, zombies>>

\* A timeout set on an earlier question fires.
PStaleTimeoutFires ==
    /\ gameMode = "PRACTICE"
    /\ practice.staleTimeouts > 0
    /\ practice' = fetchNewQuestion([practice EXCEPT !.staleTimeouts = @ - 1])
    /\ UNCHANGED <<heap, drag, challengeVars, svc, appVars, zombies>>

\* An awaited generateQuestion call settles and fetchNewQuestion resumes.
PCallSettlesFrom(outcomes) ==
    /\ gameMode = "PRACTICE"
    /\ \E i \in 1..Len(practice.calls), api \in outcomes :
       \E r \in SampledSources(Len(ArrayToSort(api))) :
        practice' = fetchNewQuestionResumed(
                        [practice EXCEPT !.calls = RemoveAt(@, i)],
                        generateQuestion(practice.calls[i].difficulty, api, r))
    /\ UNCHANGED <<heap, drag, challengeVars, svc, appVars, zombies>>

PCallSettles == PCallSettlesFrom(ApiOutcomes)

PCallSettlesSampled == PCallSettlesFrom(SampledOutcomes)

PRunEffects ==
    /\ gameMode = "PRACTICE"
    /\ practice.effectsPending
    /\ practice' = runEffects(practice)
    /\ UNCHANGED <<heap, drag, challengeVars, svc, appVars, zombies>>

\* Next Word
PSkip ==
    /\ CanAct
    /\ PendingTimeouts(practice) < MaxTimeouts
    /\ practice' = handleSkipQuestion(practice)
    /\ UNCHANGED <<heap, drag, challengeVars, svc, appVars, zombies>>

\* The spelling input, shown while the assembly is judged correct.
PType ==
    /\ CanAct
    /\ practice.morphemesAreCorrect
    /\ \E w \in TypedWords(practice.question.answer) :
        /\ w # practice.spelledWord
        /\ practice' = [practice EXCEPT !.spelledWord = w]
    /\ UNCHANGED <<heap, drag, challengeVars, svc, appVars, zombies>>

\* Check, or Enter in the spelling input.
PCheck ==
    /\ CanAct
    /\ practice.morphemesAreCorrect
    /\ PendingTimeouts(practice) < MaxTimeouts
    /\ practice' = handleCheckSpelling(practice)
    /\ practice' # practice
    /\ UNCHANGED <<heap, drag, challengeVars, svc, appVars, zombies>>

ZoneIds(p) == {p.droppedMorphemes[i].id : i \in 1..Len(p.droppedMorphemes)}

\* A tile is dragged from the bank or from the zone and dropped on the zone,
\* with the insertion mark on a zone tile other than the dragged one or on none.
PDropOnZone ==
    /\ CanAct
    /\ \E m \in Range(getBankMorphemes(practice)) \cup Range(practice.droppedMorphemes) :
       \E afterId \in (ZoneIds(practice) \ {m.id}) \cup {<<>>} :
        /\ m.id \notin ZoneIds(practice) => Len(practice.droppedMorphemes) < MaxZone
        /\ practice' = runEffects(handleDrop(practice, m, afterId))
    /\ practice' # practice
    /\ UNCHANGED <<heap, drag, challengeVars, svc, appVars, zombies>>

\* A tile of the zone is dragged back onto the bank.
PDropOnBank ==
    /\ CanAct
    /\ \E m \in Range(practice.droppedMorphemes) :
        practice' = runEffects(handleBankDrop(practice, m, "zone"))
    /\ UNCHANGED <<heap, drag, challengeVars, svc, appVars, zombies>>

(***************************************************************************)
(* Controllers the player has left: their timeouts still fire and their    *)
(* calls still settle.                                                     *)
(***************************************************************************)
Replace(seq, i, z) ==
    IF HasWork(z) THEN [seq EXCEPT ![i] = Unmounted(z)] ELSE RemoveAt(seq, i)

ZTimeoutFires ==
    /\ \E i \in 1..Len(zombies) :
        /\ zombies[i].timeouts > 0
        /\ zombies' = Replace(zombies, i,
                        fetchNewQuestion([zombies[i] EXCEPT !.timeouts = @ - 1]))
    /\ UNCHANGED <<heap, drag, challengeVars, svc, appVars, practice>>

\* A call of a left controller settles; whatever it resolves to, only the
\* finally block has an effect.
ZCallSettles ==
    /\ \E i \in 1..Len(zombies) :
       \E k \in 1..Len(zombies[i].calls) :
        zombies' = Replace(zombies, i,
                        fetchNewQuestionResumed(
                            [zombies[i] EXCEPT !.calls = RemoveAt(@, k)],
                            generateQuestion(zombies[i].calls[k].difficulty, ApiThrows,
                                             Rotation(Len(fallbackBank), 0))))
    /\ UNCHANGED <<heap, drag, challengeVars, svc, appVars, practice>>

PracticeNext ==
    \/ OpenDifficultySelection
    \/ DifficultyBack
    \/ SelectDifficulty
    \/ PracticeBack
    \/ PTimeoutFires
    \/ PStaleTimeoutFires
    \/ PCallSettles
    \/ PRunEffects
    \/ PSkip
    \/ PType
    \/ PCheck
    \/ PDropOnZone
    \/ PDropOnBank
    \/ ZTimeoutFires
    \/ ZCallSettles

(***************************************************************************)
(* ChallengeMode: the steps of the mounted controller.  The answers of the *)
(* generative calls are sampled: for a question a failure (the fallback    *)
(* question) and a well-formed question, in source order, as the           *)
(* controller never reads the bank; for a hint a failure and a text.       *)
(***************************************************************************)
\* The button of the menu that opens ChallengeMode.
OpenChallenge ==
    /\ gameMode = "MENU"
    /\ gameMode' = "CHALLENGE"
    /\ challenge' = mountChallenge(storage)
    /\ UNCHANGED <<heap, drag, svc, selectedDifficulty, practiceVars, storage, leftover>>

\* onBack of ChallengeMode: the cleanup of the timer effect clears the
\* interval; the timeouts and the calls stay under way.
ChallengeBack ==
    /\ gameMode = "CHALLENGE"
    /\ leftover.calls + leftover.timeouts + challenge.calls + challenge.timeouts
            <= MaxLeftover
    /\ gameMode' = "MENU"
    /\ leftover' = [leftover EXCEPT !.calls = @ + challenge.calls,
                                    !.timeouts = @ + challenge.timeouts]
    /\ challenge' = ChallengeInitial
    /\ UNCHANGED <<heap, drag, svc, selectedDifficulty, practiceVars, storage>>

Playing == gameMode = "CHALLENGE" /\ challenge.gameState = "playing"

\* Start Challenge! and Play Again
CStartGame ==
    /\ gameMode = "CHALLENGE"
    /\ challenge.gameState \in {"start", "end"}
    /\ challenge.calls < MaxCalls
    /\ challenge' = startGame(challenge)
    /\ UNCHANGED <<heap, drag, svc, appVars, practiceVars, storage, leftover>>

\* The interval of the timer effect fires.
CTick ==
    /\ Playing
    /\ LET after == intervalCallback(challenge, storage) IN
        /\ challenge' = after.challenge
        /\ storage' = after.storage
    /\ UNCHANGED <<heap, drag, svc, appVars, practiceVars, leftover>>

\* The answer input.
CType ==
    /\ Playing /\ ~challenge.loading
    /\ \E w \in (IF challenge.question = Null THEN {w_wrong}
                 ELSE TypedWords(challenge.question.answer)) :
        /\ w # challenge.userAnswer
        /\ challenge' = [challenge EXCEPT !.userAnswer = w]
    /\ UNCHANGED <<heap, drag, svc, appVars, practiceVars, storage, leftover>>

\* Check, or Enter in the answer input.
CCheck ==
    /\ Playing /\ ~challenge.loading
    /\ LET after == handleCheckAnswer(challenge) IN
        /\ after # challenge
        /\ after.score <= MaxScore
        /\ after.timeouts <= MaxTimeouts
        /\ challenge' = after
    /\ UNCHANGED <<heap, drag, svc, appVars, practiceVars, storage, leftover>>

\* Hint (-5 pts)
CShowHint ==
    /\ Playing /\ ~challenge.loading /\ ~challenge.hintUsed
    /\ Len(challenge.hintCalls) < MaxHintCalls
    /\ challenge' = handleShowHint(challenge)
    /\ UNCHANGED <<heap, drag, svc, appVars, practiceVars, storage, leftover>>

\* Skip (-2 pts)
CSkip ==
    /\ Playing /\ ~challenge.loading
    /\ challenge.calls < MaxCalls
    /\ challenge' = skipClicked(challenge)
    /\ UNCHANGED <<heap, drag, svc, appVars, practiceVars, storage, leftover>>

\* The timeout set by a correct answer fires.
CTimeoutFires ==
    /\ gameMode = "CHALLENGE"
    /\ challenge.timeouts > 0
    /\ challenge.calls < MaxCalls
    /\ challenge' = challengeFetchNewQuestion([challenge EXCEPT !.timeouts = @ - 1])
    /\ UNCHANGED <<heap, drag, svc, appVars, practiceVars, storage, leftover>>

\* An awaited generateQuestion() call settles and fetchNewQuestion resumes.
CCallSettles ==
    /\ gameMode = "CHALLENGE"
    /\ challenge.calls > 0
    /\ \E api \in SampledOutcomes :
        challenge' = challengeFetchResumed(
                        [challenge EXCEPT !.calls = @ - 1],
                        generateQuestion("Medium", api,
                                         Rotation(Len(ArrayToSort(api)), 0)))
    /\ UNCHANGED <<heap, drag, svc, appVars, practiceVars, storage, leftover>>

\* An awaited getHint call settles and handleShowHint resumes.
CHintSettles ==
    /\ gameMode = "CHALLENGE"
    /\ \E i \in 1..Len(challenge.hintCalls), api \in SampledHintOutcomes :
        challenge' = handleShowHintResumed(
                        [challenge EXCEPT !.hintCalls = RemoveAt(@, i)],
                        getHint(challenge.hintCalls[i], api))
    /\ UNCHANGED <<heap, drag, svc, appVars, practiceVars, storage, leftover>>

\* A timeout of a controller that was left fires: its fetchNewQuestion calls
\* generateQuestion, and React drops its state updates.
LTimeoutFires ==
    /\ leftover.timeouts > 0
    /\ leftover.calls < MaxCalls
    /\ leftover' = [leftover EXCEPT !.timeouts = @ - 1, !.calls = @ + 1]
    /\ UNCHANGED <<heap, drag, svc, appVars, practiceVars, challenge, storage>>

\* A call of a controller that was left settles.
LCallSettles ==
    /\ leftover.calls > 0
    /\ leftover' = [leftover EXCEPT !.calls = @ - 1]
    /\ UNCHANGED <<heap, drag, svc, appVars, practiceVars, challenge, storage>>

ChallengeNext ==
    \/ OpenChallenge
    \/ ChallengeBack
    \/ CStartGame
    \/ CTick
    \/ CType
    \/ CCheck
    \/ CShowHint
    \/ CSkip
    \/ CTimeoutFires
    \/ CCallSettles
    \/ CHintSettles
    \/ LTimeoutFires
    \/ LCallSettles

(***************************************************************************)
(* Question objects: the steps.                                            *)
(***************************************************************************)
\* await generateQuestion(...): a call is made and its promise resolves.
HCall ==
    /\ Len(heap.calls) < MaxRuns
    /\ \E d \in Difficulties, api \in SampledOutcomes :
       \E r \in SampledSources(Len(ArrayToSort(api))) :
        LET c == generateQuestion(d, api, r)
            h == newQuestion(heap, c.value)
        IN heap' = [h EXCEPT !.calls = Append(@, [difficulty |-> d, api |-> api,
                                                  result |-> c.value, ref |-> h.last,
                                                  tagged |-> FALSE])]
    /\ UNCHANGED <<drag, svc, appVars, practiceVars, challengeVars>>

\* The practice controller tags the bank of a Question it was returned.
HTag ==
    /\ \E i \in 1..Len(heap.calls) :
        /\ ~heap.calls[i].tagged
        /\ heap' = [tagBank(heap, heap.calls[i].ref) EXCEPT !.calls[i].tagged = TRUE]
    /\ UNCHANGED <<drag, svc, appVars, practiceVars, challengeVars>>

HeapNext ==
    \/ HCall
    \/ HTag

(***************************************************************************)
(* Dragging: the steps.  One practice controller, from its mount on; a     *)
(* tile is taken, held while timeouts fire and questions arrive, and       *)
(* dropped on the zone, outside it, or nowhere.                            *)
(***************************************************************************)
\* Answers of the generative call while tiles are dragged: a failure, a
\* well-formed question, and a question whose bank holds a tile twice.
DragOutcomes == {ApiThrows, ApiJson(v_react), ApiJson(v_twice)}

\* handleDragStart / handleTouchStart on a tile of the bank or of the zone.
DGrab ==
    /\ CanAct
    /\ ~drag.held
    /\ \/ \E m \in Range(getBankMorphemes(practice)) :
            drag' = handleDragStart(m, "bank")
       \/ \E m \in Range(practice.droppedMorphemes) :
            drag' = handleDragStart(m, "zone")
    /\ UNCHANGED <<heap, svc, appVars, practiceVars, challengeVars>>

\* handleDrop / handleTouchEnd over the drop zone, which exists while the
\* main screen is rendered.
DDropOnZone ==
    /\ gameMode = "PRACTICE" /\ PracticeScreen(practice)
    /\ drag.held
    /\ drag.morpheme.id \notin ZoneIds(practice)
            => Len(practice.droppedMorphemes) < MaxZone
    /\ \E afterId \in (ZoneIds(practice) \ {drag.morpheme.id}) \cup {<<>>} :
        practice' = runEffects(handleDrop(practice, drag.morpheme, afterId))
    /\ drag' = NoDrag
    /\ UNCHANGED <<heap, svc, appVars, zombies, challengeVars>>

\* handleBankDrop, or handleTouchEnd anywhere outside the drop zone.
DDropOutside ==
    /\ gameMode = "PRACTICE"
    /\ drag.held
    /\ practice' = runEffects(handleTouchEndOutside(practice, drag))
    /\ drag' = NoDrag
    /\ UNCHANGED <<heap, svc, appVars, zombies, challengeVars>>

\* An awaited generateQuestion call settles while a tile may be held.
DCallSettles ==
    /\ gameMode = "PRACTICE"
    /\ \E i \in 1..Len(practice.calls), api \in DragOutcomes :
       \E r \in SampledSources(Len(ArrayToSort(api))) :
        practice' = fetchNewQuestionResumed(
                        [practice EXCEPT !.calls = RemoveAt(@, i)],
                        generateQuestion(practice.calls[i].difficulty, api, r))
    /\ drag' = heldOver(drag)
    /\ UNCHANGED <<heap, svc, appVars, zombies, challengeVars>>

DragNext ==
    \/ OpenDifficultySelection
    \/ SelectDifficultySampled
    \/ DGrab
    \/ DDropOnZone
    \/ DDropOutside
    \/ DCallSettles
    \/ PRunEffects
    \/ PSkip
    \/ PType
    \/ PCheck
    \/ PTimeoutFires
    \/ PStaleTimeoutFires

(***************************************************************************)
(* Specifications.                                                         *)
(***************************************************************************)
SpecService == Init /\ [][SvcNext]_vars

SpecPractice == Init /\ [][PracticeNext]_vars

SpecChallenge == Init /\ [][ChallengeNext]_vars

SpecHeap == Init /\ [][HeapNext]_vars

SpecDrag == Init /\ [][DragNext]_vars

(***************************************************************************)
(* Typed answers.  The steps are those that lead to a question on screen,  *)
(* let the player assemble and type, and check what was typed, in both     *)
(* controllers; the answers of the generative call and the difficulty are  *)
(* sampled.                                                                *)
(***************************************************************************)
TypingNext ==
    \/ OpenDifficultySelection
    \/ DifficultyBack
    \/ SelectDifficultySampled
    \/ PracticeBack
    \/ PTimeoutFires
    \/ PStaleTimeoutFires
    \/ PCallSettlesSampled
    \/ PRunEffects
    \/ PDropOnZone
    \/ PType
    \/ PCheck
    \/ ZTimeoutFires
    \/ ZCallSettles
    \/ OpenChallenge
    \/ ChallengeBack
    \/ CStartGame
    \/ CTick
    \/ CType
    \/ CCheck
    \/ CTimeoutFires
    \/ CCallSettles
    \/ LTimeoutFires
    \/ LCallSettles

SpecTyping == Init /\ [][TypingNext]_vars

(***************************************************************************)
(* The life cycle of a fetch under fairness.  The steps are those that     *)
(* start a fetch, complete one, end a game, or mount and unmount a         *)
(* controller; the answers of the generative call and the difficulty are   *)
(* sampled; a mode is opened once the calls and timeouts of the other      *)
(* mode's controllers have drained.  Every generative call that is         *)
(* outstanding settles: weak fairness of the steps in which a call settles.*)
(***************************************************************************)
FetchNext ==
    \/ OpenDifficultySelection /\ leftover = NoLeftover
    \/ DifficultyBack
    \/ SelectDifficultySampled
    \/ PracticeBack
    \/ PTimeoutFires
    \/ PStaleTimeoutFires
    \/ PCallSettlesSampled
    \/ PRunEffects
    \/ PSkip
    \/ ZTimeoutFires
    \/ ZCallSettles
    \/ OpenChallenge /\ zombies = <<>>
    \/ ChallengeBack
    \/ CStartGame
    \/ CTick
    \/ CType
    \/ CCheck
    \/ CSkip
    \/ CTimeoutFires
    \/ CCallSettles
    \/ LTimeoutFires
    \/ LCallSettles

EveryCallSettles ==
    /\ WF_vars(PCallSettlesSampled)
    /\ WF_vars(ZCallSettles)
    /\ WF_vars(CCallSettles)
    /\ WF_vars(LCallSettles)

SpecFetch == Init /\ [][FetchNext]_vars /\ EveryCallSettles

(***************************************************************************)
(* Wrong and blank answers.  The steps of the typed answers, with blanks   *)
(* typed into the challenge input and hints requested.                     *)
(***************************************************************************)
\* The answer input, blanks typed into it.
CTypeBlanks ==
    /\ Playing /\ ~challenge.loading
    /\ challenge.userAnswer # <<Space, Space>>
    /\ challenge' = [challenge EXCEPT !.userAnswer = <<Space, Space>>]
    /\ UNCHANGED <<heap, drag, svc, appVars, practiceVars, storage, leftover>>

AnswerNext ==
    \/ OpenDifficultySelection
    \/ DifficultyBack
    \/ SelectDifficultySampled
    \/ PracticeBack
    \/ PTimeoutFires
    \/ PStaleTimeoutFires
    \/ PCallSettlesSampled
    \/ PRunEffects
    \/ PDropOnZone
    \/ PType
    \/ PCheck
    \/ ZTimeoutFires
    \/ ZCallSettles
    \/ OpenChallenge
    \/ ChallengeBack
    \/ CStartGame
    \/ CTick
    \/ CType
    \/ CTypeBlanks
    \/ CCheck
    \/ CShowHint
    \/ CHintSettles
    \/ CTimeoutFires
    \/ CCallSettles
    \/ LTimeoutFires
    \/ LCallSettles

SpecAnswer == Init /\ [][AnswerNext]_vars

(***************************************************************************)
(* A challenge game to its end.  The interval set by the timer effect      *)
(* fires every second while the game is playing: weak fairness of the      *)
(* tick.                                                                   *)
(***************************************************************************)
TimerTicks == WF_vars(CTick)

SpecGame == Init /\ [][ChallengeNext]_vars /\ TimerTicks

(***************************************************************************)
(* Properties of the service.                                              *)
(***************************************************************************)
QuestionSettled == svc.op = "generateQuestion" /\ svc.status \in {"resolved", "rejected"}
HintSettled == svc.op = "getHint" /\ svc.status \in {"resolved", "rejected"}

\* The response is one of those the claim lists: the call threw, the text is
\* no string or is empty, the text is no JSON, or the object lacks a field or
\* has an empty bank.
ListedAsMalformed(api) ==
    \/ api.threw
    \/ ~api.textIsString
    \/ api.text.body \in {"blank", "garbage"}
    \/ /\ api.text.body = "json"
       /\ api.text.value.kind = "object"
       /\ \/ api.text.value.has # QuestionFields
          \/ api.text.value.bank = <<>>

SameTiles(a, b) ==
    /\ Len(a) = Len(b)
    /\ \A t \in Range(a) \cup Range(b) :
        Cardinality({i \in 1..Len(a) : a[i] = t}) = Cardinality({i \in 1..Len(b) : b[i] = t})

IsFallbackQuestion(q) ==
    /\ q.answer = w_unbelievable
    /\ q.definition = "Not capable of being believed."
    /\ q.parts = <<m_un, m_believe, m_able>>
    /\ SameTiles(q.bank, fallbackBank)

\* C1: generateQuestion never rejects, and whenever the generative call throws,
\* answers no text, an empty text, a text that is no JSON, or an object that
\* lacks answer, definition, parts or bank or has an empty bank, the promise
\* resolves to the hardcoded fallback Question ("unbelievable").
C1_NeverRejects ==
    QuestionSettled =>
        /\ svc.status = "resolved"
        /\ ListedAsMalformed(svc.api) => IsFallbackQuestion(svc.question)

C1_Witness ==
    /\ QuestionSettled
    /\ svc.api.textIsString /\ svc.api.text.body = "json"
    /\ svc.api.text.value.kind = "object" /\ svc.api.text.value.bank = <<>>
    /\ svc.question.answer = w_unbelievable

Occurrences(bank, m) == Cardinality({i \in 1..Len(bank) : bank[i].morpheme = m})

\* C2: in every Question generateQuestion returns, each surface string of
\* parts occurs exactly once in bank, and no surface string occurs twice in bank.
C2_BankCoversParts ==
    (QuestionSettled /\ svc.status = "resolved") =>
        /\ \A i \in 1..Len(svc.question.parts) :
              Occurrences(svc.question.bank, svc.question.parts[i]) = 1
        /\ \A i \in 1..Len(svc.question.bank) :
              Occurrences(svc.question.bank, svc.question.bank[i].morpheme) = 1

\* The distractors of a question: the tiles of its bank that are none of its parts.
Distractors(q) == {i \in 1..Len(q.bank) : q.bank[i].morpheme \notin Range(q.parts)}

\* C3: in every Question generateQuestion returns, the bank has
\* min(8, |parts| + number of distractors) tiles, at least |parts| and at most 8.
C3_BankSize ==
    (QuestionSettled /\ svc.status = "resolved") =>
        /\ Len(svc.question.bank) =
              Min(8, Len(svc.question.parts) + Cardinality(Distractors(svc.question)))
        /\ Len(svc.question.bank) >= Len(svc.question.parts)
        /\ Len(svc.question.bank) <= 8

HintFailed(api) == api.threw \/ ~api.textIsString

\* C9 as claimed: getHint never rejects, resolves to a string, and resolves to
\* one and the same fallback string on every failure of the generative call.
C9_SingleFallback ==
    HintSettled =>
        /\ svc.status = "resolved"
        /\ svc.hint.type = "string"
        /\ HintFailed(svc.hintApi) => svc.hint.s = HintCatch

\* C9 as amended: getHint never rejects and resolves to a string; when the
\* generative call throws it resolves to the string of the catch block, and when
\* the response carries no string it resolves to "Hint not available at the moment.".
C9_TwoFallbacks ==
    HintSettled =>
        /\ svc.status = "resolved"
        /\ svc.hint.type = "string"
        /\ svc.hintApi.threw => svc.hint.s = HintCatch
        /\ (~svc.hintApi.threw /\ ~svc.hintApi.textIsString) => svc.hint.s = HintNotAvailable

C9_Witness ==
    HintSettled /\ svc.hintApi.threw /\ svc.hint = StringValue(HintCatch)

\* A part that reads as a root: no hyphen at either end.
ReadsAsRoot(p) == ~startsWith(p, Hyphen) /\ ~endsWith(p, Hyphen)

\* C10: a hint asked for parts none of which is a root resolves to the fixed
\* generic fallback string, never to the empty string and never to an error.
C10_NoRootFallback ==
    (HintSettled /\ \A i \in 1..Len(svc.parts) : ~ReadsAsRoot(svc.parts[i])) =>
        /\ svc.status = "resolved"
        /\ svc.hint.type = "string"
        /\ svc.hint.s \in {HintCatch, HintNotAvailable}

(***************************************************************************)
(* Properties of the practice controller.                                  *)
(***************************************************************************)
InPractice == gameMode = "PRACTICE" /\ gameMode' = "PRACTICE"

\* A call of the mounted controller settles in this step.
PracticeCallSettled(i) ==
    /\ InPractice
    /\ i \in 1..Len(practice.calls)
    /\ practice'.calls = RemoveAt(practice.calls, i)

\* C4: a question requested with excludeAnswer = X never has the answer X, so
\* two consecutive practice rounds never present the same answer.
C4_ExcludedAnswerNotReturned ==
    [][\A i \in 1..Len(practice.calls) :
          (/\ PracticeCallSettled(i)
           /\ practice.calls[i].excludeAnswer # NullAnswer
           /\ practice'.question # Null)
          => practice'.question.answer # practice.calls[i].excludeAnswer]_vars

\* The generateQuestion calls outstanding, of the mounted controller and of
\* the controllers the player has left.
RECURSIVE SumCalls(_)
SumCalls(zs) == IF zs = <<>> THEN 0 ELSE Len(Head(zs).calls) + SumCalls(Tail(zs))

PracticeCallsOutstanding == Len(practice.calls) + SumCalls(zombies)

\* C5: in practice mode at most one generateQuestion call is outstanding at
\* any time.
C5_OneCallOutstanding == PracticeCallsOutstanding <= 1

\* C7: a presented question is replaced only by a timeout that Check or Next
\* Word set while that same question was presented; a timeout left over from
\* an earlier question never starts a fetch, so a round generates one question.
C7_OncePerRound ==
    [][(InPractice /\ practice.question # Null /\ practice'.question # practice.question)
          => /\ practice'.timeouts = practice.timeouts - 1
             /\ practice'.staleTimeouts = practice.staleTimeouts]_vars

(***************************************************************************)
(* Properties of the challenge controller.                                 *)
(***************************************************************************)
InChallenge == gameMode = "CHALLENGE" /\ gameMode' = "CHALLENGE"

\* C6: in challenge mode at most one generateQuestion call is outstanding at
\* any time, and the presented question never changes while loading is false.
C6_OneCallOutstanding ==
    [][/\ challenge'.calls <= 1
       /\ (InChallenge /\ ~challenge.loading) => challenge'.question = challenge.question]_vars

(***************************************************************************)
(* Properties of the fetch life cycle.                                     *)
(***************************************************************************)
PracticeFetched ==
    ~practice.loading /\ practice.question # Null /\ ~practice.fetchInProgress

ChallengeFetched == ~challenge.loading /\ challenge.question # Null

\* The mounted controller awaits a generateQuestion call.
FetchStarted ==
    \/ gameMode = "PRACTICE" /\ practice.calls # <<>>
    \/ gameMode = "CHALLENGE" /\ challenge.calls > 0

FetchCompleted ==
    \/ gameMode = "PRACTICE" /\ PracticeFetched
    \/ gameMode = "CHALLENGE" /\ ChallengeFetched

\* C8: every fetch that was started is eventually followed by loading false
\* and a question that is not null, in practice mode with fetchInProgress
\* released.
C8_EveryFetchCompletes == FetchStarted ~> FetchCompleted

\* C8, amended: every fetch that was started is eventually followed by
\* loading false and a question that is not null, in practice mode with
\* fetchInProgress released, unless the player first leaves challenge mode
\* for the menu.
C8_FetchCompletesOrModeLeft ==
    FetchStarted ~> (FetchCompleted \/ gameMode = "MENU")

\* A challenge fetch started by the timeout of a correct answer has completed.
C8_Witness ==
    /\ gameMode = "CHALLENGE" /\ challenge.gameState = "playing"
    /\ challenge.score > 0 /\ challenge.calls = 0 /\ challenge.timeouts = 0
    /\ ChallengeFetched /\ challenge.feedback = NoFeedback

(***************************************************************************)
(* Properties of the hint request.                                         *)
(***************************************************************************)
\* The parts that neither start nor end with a hyphen, in their order.
RECURSIVE RootCandidates(_)
RootCandidates(parts) ==
    IF parts = <<>> THEN <<>>
    ELSE (IF ReadsAsRoot(Head(parts)) THEN <<Head(parts)>> ELSE <<>>)
             \o RootCandidates(Tail(parts))

\* C11: on a hint request the challenge controller passes to getHint exactly
\* the parts of the presented question that neither start nor end with a
\* hyphen, in their original order.
C11_HintArgument ==
    [][(InChallenge /\ Len(challenge'.hintCalls) > Len(challenge.hintCalls))
          => /\ challenge.question # Null
             /\ ~challenge.loading
             /\ challenge'.hintCalls[Len(challenge'.hintCalls)]
                    = RootCandidates(challenge.question.parts)]_vars

\* A hint was requested for "unbelievable": of un-, believe, -able only
\* believe was passed.
C11_Witness ==
    /\ gameMode = "CHALLENGE"
    /\ challenge.question # Null
    /\ challenge.question.parts = <<m_un, m_believe, m_able>>
    /\ challenge.hintUsed
    /\ challenge.hintCalls = << <<m_believe>> >>

(***************************************************************************)
(* Properties of the fallback question and of the shuffle.                 *)
(***************************************************************************)
\* The call ended in the catch block.
FellBack == QuestionSettled /\ Validated(svc.api).threw

\* C12: the fallback Question has parts un-, believe, -able in that order and
\* a bank of exactly 8 tiles holding each of the three parts once and 5
\* pairwise distinct distractors, none of them un-, believe or -able,
\* whatever the order the shuffle leaves.
C12_FallbackQuestion ==
    FellBack =>
        LET q == svc.question
            surfaces == {q.bank[i].morpheme : i \in Distractors(q)}
        IN /\ q.answer = w_unbelievable
           /\ q.parts = <<m_un, m_believe, m_able>>
           /\ Len(q.bank) = 8
           /\ \A p \in {m_un, m_believe, m_able} : Occurrences(q.bank, p) = 1
           /\ Cardinality(Distractors(q)) = 5
           /\ Cardinality(surfaces) = 5
           /\ surfaces \cap {m_un, m_believe, m_able} = {}

\* The fallback was returned with its bank in another order than written.
C12_Witness ==
    /\ FellBack
    /\ svc.api.textIsString /\ svc.api.text.body = "garbage"
    /\ svc.question.bank # fallbackBank
    /\ svc.question.bank[1].morpheme = m_port
    /\ svc.question.bank[8].morpheme = m_un

\* The bank as it was before the sort: the one the response carried, or the
\* one written in the catch block.
BankBeforeShuffle ==
    IF FellBack THEN fallbackBank ELSE svc.api.text.value.bank

\* C13: the bank generateQuestion returns holds the same tiles, each as many
\* times, as the bank before the shuffle (the response's or the fallback's):
\* no tile is added, dropped or duplicated.
C13_ShuffleIsPermutation ==
    QuestionSettled =>
        /\ svc.status = "resolved"
        /\ SameTiles(svc.question.bank, BankBeforeShuffle)

\* The bank of a response came back in another order, a repeated tile included.
C13_Witness ==
    /\ QuestionSettled /\ ~FellBack
    /\ svc.api.text.value = v_twice
    /\ svc.question.bank # svc.api.text.value.bank

(***************************************************************************)
(* Properties of the Question objects.                                     *)
(***************************************************************************)
\* C14 as claimed: two runs of generateQuestion with the same inputs and the
\* same answer of the generative call return the same answer and the same
\* order of the bank.  The code draws from Math.random, which takes no seed.
C14_Reproducible ==
    \A i, j \in 1..Len(heap.calls) :
        (/\ heap.calls[i].difficulty = heap.calls[j].difficulty
         /\ heap.calls[i].api = heap.calls[j].api)
            => /\ heap.calls[i].result.answer = heap.calls[j].result.answer
               /\ heap.calls[i].result.bank = heap.calls[j].result.bank

\* C19: every call of generateQuestion returns a Question of its own: no two
\* calls return the same object or objects that share an array, and neither
\* a later call nor the tagging of the bank of one returned Question changes
\* the Question any other call returned, two fallback Questions included.
C19_OwnQuestion ==
    [][\A i \in 1..Len(heap.calls) :
          /\ \A j \in 1..Len(heap'.calls) :
                j # i =>
                   LET a == heap'.objects[heap'.calls[i].ref]
                       b == heap'.objects[heap'.calls[j].ref]
                   IN /\ heap'.calls[i].ref # heap'.calls[j].ref
                      /\ {a.parts, a.bank} \cap {b.parts, b.bank} = {}
          /\ heap'.calls[i].tagged = heap.calls[i].tagged
                => Deref(heap', heap.calls[i].ref) = Deref(heap, heap.calls[i].ref)]_vars

\* Two fallback Questions were returned and the bank of the first was
\* tagged: the second still is what its call returned.
C19_Witness ==
    /\ Len(heap.calls) = 2
    /\ heap.calls[1].api = ApiThrows /\ heap.calls[2].api = ApiThrows
    /\ heap.calls[1].tagged /\ ~heap.calls[2].tagged
    /\ Deref(heap, heap.calls[1].ref).bank = withIds(heap.calls[1].result.bank)
    /\ Deref(heap, heap.calls[2].ref) = heap.calls[2].result

(***************************************************************************)
(* Properties of the persisted high score.                                 *)
(***************************************************************************)
\* The number the stored item stands for; 0 while nothing is stored.
StoredValue(stored) ==
    IF stored = <<>> THEN 0
    ELSE CHOOSE n \in 0..(MaxScore + 10) : toString(n) = stored

GameEnds == Playing /\ challenge'.gameState = "end"

\* C15: the persisted high score is read when the challenge controller is
\* mounted; it is written only in a step that ends a game whose final score
\* is strictly greater than the stored value; it never decreases; and after
\* every end of a game it is the greater of the value stored before and the
\* final score of that game.
C15_HighScorePersisted ==
    [][/\ (gameMode = "MENU" /\ gameMode' = "CHALLENGE")
            => challenge'.highScore = StoredValue(storage)
       /\ storage' # storage
            => (GameEnds /\ challenge.score > StoredValue(storage))
       /\ StoredValue(storage') >= StoredValue(storage)
       /\ GameEnds
            => /\ challenge'.score = challenge.score
               /\ StoredValue(storage') =
                    (IF challenge.score > StoredValue(storage)
                     THEN challenge.score ELSE StoredValue(storage))]_vars

\* A game ended with 5 points while 10 were stored: 10 stay stored.
C15_Witness ==
    /\ gameMode = "CHALLENGE"
    /\ challenge.gameState = "end"
    /\ challenge.score = 5
    /\ storage = <<"1", "0">>
    /\ challenge.highScore = 10

(***************************************************************************)
(* Properties of the argument excludeAnswer.                               *)
(***************************************************************************)
\* C16 as claimed: whenever the mounted practice controller starts a round
\* after its first, the excludeAnswer it passes to generateQuestion is the
\* answer of the question it presented last, whatever the order of fetch
\* completion, the effect that sets questionAnswerRef, and the timeouts.
C16_ExcludesLastPresented ==
    [][(InPractice /\ Len(practice'.calls) > Len(practice.calls))
          => /\ practice.question # Null
             /\ practice'.calls[Len(practice'.calls)].excludeAnswer
                    = practice.question.answer]_vars

(***************************************************************************)
(* Properties of the content of a returned Question.                       *)
(***************************************************************************)
\* C17 as claimed: every tile in the bank of a Question generateQuestion
\* returns has a type that is prefix, root or suffix, a surface string and
\* a meaning.
C17_TileRoles ==
    (QuestionSettled /\ svc.status = "resolved") =>
        \A i \in 1..Len(svc.question.bank) :
            LET tile == svc.question.bank[i] IN
            /\ {"morpheme", "meaning", "type"} \subseteq DOMAIN tile
            /\ tile.type \in {"prefix", "root", "suffix"}
            /\ Len(tile.morpheme) >= 1

\* C18 as claimed: the parts of every Question generateQuestion returns are
\* at least one, so the practice controller never judges an empty
\* construction zone to be the correct assembly.
C18_PartsNotEmpty ==
    (gameMode = "PRACTICE" /\ practice.question # Null) =>
        /\ Len(practice.question.parts) >= 1
        /\ practice.droppedMorphemes = <<>> => ~practice.morphemesAreCorrect

(***************************************************************************)
(* Properties of the typed answer.                                         *)
(***************************************************************************)
\* What is left of a typed text without the blanks around it.
Core(w) ==
    LET inked == {k \in 1..Len(w) : w[k] # Space} IN
    IF inked = {} THEN <<>>
    ELSE SubSeq(w, CHOOSE i \in inked : \A k \in inked : i <= k,
                   CHOOSE j \in inked : \A k \in inked : j >= k)

\* Two letters that differ at most in case.
SameLetter(a, b) == a = b \/ UpperChar(a) = b \/ a = UpperChar(b)

\* The typed text, its surrounding blanks apart, is the answer up to case.
EqualsAnswer(typed, answer) ==
    /\ Len(Core(typed)) = Len(answer)
    /\ \A k \in 1..Len(answer) : SameLetter(Core(typed)[k], answer[k])

\* C20: a check of a typed answer accepts it as correct if and only if the
\* text, with the blanks around it trimmed and letter case ignored, equals
\* the answer of the question presented, in the practice spelling check and
\* in the challenge answer check.
C20_AcceptedIffEqual ==
    [][/\ PCheck =>
            ((/\ practice'.feedback.type = "correct"
              /\ practice'.timeouts = practice.timeouts + 1)
             <=> EqualsAnswer(practice.spelledWord, practice.question.answer))
       /\ PCheck => (practice'.feedback.type \in {"correct", "incorrect"})
       /\ CCheck =>
            ((/\ challenge'.feedback.type = "correct"
              /\ challenge'.score > challenge.score
              /\ challenge'.timeouts = challenge.timeouts + 1)
             <=> EqualsAnswer(challenge.userAnswer, challenge.question.answer))]_vars

\* The answer typed in capitals between blanks was accepted in the challenge
\* while a practice controller left behind still holds the timeout of an
\* answer it accepted.
C20_Witness ==
    /\ gameMode = "CHALLENGE"
    /\ challenge.feedback.type = "correct"
    /\ challenge.score = 10
    /\ challenge.userAnswer = <<>>
    /\ Len(zombies) = 1

(***************************************************************************)
(* Properties of the assembly.                                             *)
(***************************************************************************)
\* The tiles in the construction zone read, one by one, as the parts.
Assembled(p) ==
    /\ Len(p.droppedMorphemes) = Len(p.question.parts)
    /\ \A k \in 1..Len(p.droppedMorphemes) :
            p.droppedMorphemes[k].morpheme = p.question.parts[k]

\* C21: in practice mode, once the effects of a render have run, the
\* assembly is judged correct if and only if the surface strings of the
\* tiles in the construction zone are the parts of the question, in length
\* and order, whatever the ids of the tiles; and the player types or checks
\* a spelling only while the assembly is judged correct.
C21_JudgedBySurfaces ==
    [][/\ (gameMode' = "PRACTICE" /\ practice'.question # Null
                /\ ~practice'.effectsPending)
            => (practice'.morphemesAreCorrect <=> Assembled(practice'))
       /\ (gameMode' = "PRACTICE" /\ practice'.question = Null)
            => ~practice'.morphemesAreCorrect
       /\ (PType \/ PCheck)
            => (practice.morphemesAreCorrect /\ Assembled(practice))]_vars

\* The bank holds the tile act twice; re- and the second act are in the zone
\* and the assembly is judged correct.
C21_Witness ==
    /\ gameMode = "PRACTICE"
    /\ practice.question # Null
    /\ practice.question.parts = <<m_re, m_act>>
    /\ Len(practice.droppedMorphemes) = 2
    /\ practice.droppedMorphemes[2].id \notin
            {practice.question.bank[i].id : i \in 1..2}
    /\ practice.droppedMorphemes[2].morpheme = m_act
    /\ practice.morphemesAreCorrect
    /\ practice.spelledWord # <<>>

(***************************************************************************)
(* Properties of a challenge game.                                         *)
(***************************************************************************)
\* C22 as claimed: once a correct answer to the presented question has been
\* scored (its feedback is on screen and no new question has been requested
\* since), no step of the challenge controller adds points.
C22_ScoredOnce ==
    [][(InChallenge /\ challenge.feedback.type = "correct")
          => challenge'.score <= challenge.score]_vars

\* C23 as claimed: whenever the challenge controller displays a hint text,
\* a hint was requested for the question presented (hintUsed is true): the
\* answer to a hint request made for an earlier question is not displayed.
C23_HintOfPresentedQuestion ==
    (gameMode = "CHALLENGE" /\ challenge.hint # "")
        => (challenge.question # Null /\ challenge.hintUsed)

\* C24 as claimed: while a challenge game stays in state 'end' no question
\* is requested, and no question is requested on behalf of a controller the
\* player has left.
C24_NoRequestAfterEnd ==
    [][/\ (/\ gameMode = "CHALLENGE" /\ gameMode' = "CHALLENGE"
           /\ challenge.gameState = "end" /\ challenge'.gameState = "end")
            => challenge'.calls <= challenge.calls
       /\ gameMode' = gameMode => leftover'.calls <= leftover.calls]_vars

\* C25 as claimed: whenever a challenge game ends with a final score that is
\* greater than zero and strictly greater than the high score stored before
\* the end, the end screen displays the "New High Score!" notice.
C25_NewHighScoreShown ==
    [][(GameEnds /\ challenge.score > 0
            /\ challenge.score > StoredValue(storage))
          => showsNewHighScore(challenge')]_vars

(***************************************************************************)
(* Properties of the construction zone.                                    *)
(***************************************************************************)
\* The ordering a drop is meant to commit: the tile m immediately before
\* the zone tile with id afterId, or last when afterId is <<>>, the other
\* tiles in the order they had.
IntendedOrdering(zone, m, afterId) ==
    LET Others(t) == t.id # m.id
        rest == SelectSeq(zone, Others)
    IN IF afterId = <<>> THEN Append(rest, m)
       ELSE LET k == CHOOSE i \in 1..Len(rest) : rest[i].id = afterId
            IN SubSeq(rest, 1, k - 1) \o <<m>> \o SubSeq(rest, k, Len(rest))

\* C26 as claimed: a drop on the construction zone of a tile of the bank or
\* of the zone, with the insertion mark on another zone tile or on none,
\* leaves the tile immediately before the marked tile, or last, and the
\* other tiles in their order.
C26_DropOrdering ==
    [][\A m \in Range(getBankMorphemes(practice)) \cup Range(practice.droppedMorphemes) :
       \A afterId \in (ZoneIds(practice) \ {m.id}) \cup {<<>>} :
          (CanAct /\ gameMode' = "PRACTICE"
                /\ practice' = runEffects(handleDrop(practice, m, afterId)))
            => practice'.droppedMorphemes
                    = IntendedOrdering(practice.droppedMorphemes, m, afterId)]_vars

\* C27 as claimed: in practice mode every tile in the construction zone is
\* a tile of the bank of the question presented.
C27_ZoneWithinBank ==
    (gameMode = "PRACTICE" /\ practice.question # Null) =>
        \A k \in 1..Len(practice.droppedMorphemes) :
            \E i \in 1..Len(practice.question.bank) :
                practice.question.bank[i] = practice.droppedMorphemes[k]

\* How many tiles of a sequence carry an id.
CountId(tiles, id) == Cardinality({k \in 1..Len(tiles) : tiles[k].id = id})

\* C28: in practice mode no tile id occurs twice in the construction zone;
\* each tile of the bank of the question presented is shown in exactly one
\* place, in the bank area if and only if its id is not in the zone; and a
\* zone tile dropped back on the bank leaves the zone, it alone.
C28_OnePlacePerTile ==
    [][/\ (gameMode' = "PRACTICE" /\ practice'.question # Null) =>
            /\ \A k \in 1..Len(practice'.droppedMorphemes) :
                  CountId(practice'.droppedMorphemes,
                          practice'.droppedMorphemes[k].id) = 1
            /\ \A i \in 1..Len(practice'.question.bank) :
                  LET id == practice'.question.bank[i].id IN
                  /\ CountId(getBankMorphemes(practice'), id)
                        + CountId(practice'.droppedMorphemes, id) = 1
                  /\ CountId(getBankMorphemes(practice'), id) = 1
                        <=> id \notin ZoneIds(practice')
       /\ (DDropOutside /\ drag.source = "zone") =>
            LET Stays(t) == t.id # drag.morpheme.id IN
            /\ practice'.droppedMorphemes = SelectSeq(practice.droppedMorphemes, Stays)
            /\ Len(practice'.droppedMorphemes) >= Len(practice.droppedMorphemes) - 1]_vars

\* The bank holds the tile act twice: one of them is in the zone, the other
\* is shown in the bank area, after a tile was dropped back on the bank.
C28_Witness ==
    /\ gameMode = "PRACTICE"
    /\ practice.question # Null
    /\ Len(practice.question.bank) = 3
    /\ practice.question.bank[2].morpheme = practice.question.bank[3].morpheme
    /\ practice.droppedMorphemes = <<practice.question.bank[3]>>
    /\ Len(getBankMorphemes(practice)) = 2
    /\ ~drag.held

(***************************************************************************)
(* Properties of the challenge score.                                      *)
(***************************************************************************)
\* A correct answer adds 10 points with the flag down and 5 with it up.
PointsFollowFlag ==
    (CCheck /\ challenge'.score # challenge.score) =>
        challenge'.score - challenge.score = (IF challenge.hintUsed THEN 5 ELSE 10)

\* A hint is requested only with the flag down, and raises it.
HintOncePerFlag ==
    (InChallenge /\ Len(challenge'.hintCalls) > Len(challenge.hintCalls)) =>
        (~challenge.hintUsed /\ challenge'.hintUsed)

\* The flag goes down in the steps that request a question, and in no other.
FlagClearedAtRequest ==
    InChallenge =>
        /\ (challenge.hintUsed /\ ~challenge'.hintUsed) => challenge'.calls > challenge.calls
        /\ challenge'.calls > challenge.calls => ~challenge'.hintUsed

\* A question that has just been presented has had no hint requested for it.
FlagOfPresentedQuestion ==
    (InChallenge /\ challenge'.question # challenge.question) => ~challenge'.hintUsed

\* C29: in challenge mode a correct answer adds 10 points when no hint was
\* requested for the question presented and 5 points when one was; a hint is
\* requested at most once per question; the hint-used flag is cleared exactly
\* when a new question is requested.
C29_PointsAndHintFlag ==
    [][/\ PointsFollowFlag
       /\ HintOncePerFlag
       /\ FlagClearedAtRequest
       /\ FlagOfPresentedQuestion]_vars

\* C30: the challenge score is never negative; Skip takes 2 points but not
\* below 0; startGame sets the score to 0.
C30_ScoreNotNegative ==
    [][/\ challenge.score >= 0
       /\ challenge'.score >= 0
       /\ CSkip => challenge'.score = (IF challenge.score >= 2 THEN challenge.score - 2 ELSE 0)
       /\ CStartGame => challenge'.score = 0]_vars

\* A game in which Skip has taken 2 points from a hinted correct answer.
C30_Witness ==
    /\ gameMode = "CHALLENGE"
    /\ challenge.gameState = "playing"
    /\ challenge.score = 3

(***************************************************************************)
(* Properties of the challenge timer.                                      *)
(***************************************************************************)
\* C31: in challenge mode the timer lies in 0..GAME_DURATION; a tick of a
\* game that is playing takes exactly 1 from it, and nothing else changes it
\* but startGame, which sets GAME_DURATION; the game state becomes 'end' only
\* in the tick that takes the timer to 0, so that 'end' implies timer = 0.
C31_TimerRange ==
    [][/\ challenge.timer \in 0..GAME_DURATION
       /\ challenge'.timer \in 0..GAME_DURATION
       /\ CTick => challenge'.timer = challenge.timer - 1
       /\ (InChallenge /\ challenge'.timer # challenge.timer) =>
             \/ CTick
             \/ CStartGame /\ challenge'.timer = GAME_DURATION
       /\ (InChallenge /\ challenge'.gameState = "end" /\ challenge.gameState # "end") =>
             CTick /\ challenge.timer = 1 /\ challenge'.timer = 0
       /\ challenge.gameState = "end" => challenge.timer = 0
       /\ challenge'.gameState = "end" => challenge'.timer = 0]_vars

\* A game that has run out of time.
C31_Witness ==
    /\ gameMode = "CHALLENGE"
    /\ challenge.gameState = "end"
    /\ challenge.timer = 0

C33_CleanPresentation ==
    [][/\ (InPractice /\ practice'.question # Null
                      /\ practice'.question # practice.question) =>
             /\ practice'.droppedMorphemes = <<>>
             /\ practice'.spelledWord = <<>>
             /\ practice'.feedback = NoFeedback
             /\ ~practice'.morphemesAreCorrect
       /\ (gameMode' = "PRACTICE" /\ practice'.fetchInProgress) =>
             practice'.question = Null]_vars

\* A question has just been presented, after a Next Word was pressed on the
\* one before it and while a tile of that one is still held.
C33_Witness ==
    /\ gameMode = "PRACTICE"
    /\ practice.question # Null
    /\ ~practice.loading /\ ~practice.fetchInProgress
    /\ practice.effectsPending
    /\ practice.questionAnswerRef # NullAnswer
    /\ drag.held

(***************************************************************************)
(* Properties of a wrong answer.                                           *)
(***************************************************************************)
\* C34: an answer that is not correct changes the feedback and nothing
\* else, but for the challenge input, which it clears: question, zone,
\* score, timer and hint state stay and no question is scheduled; a blank
\* challenge answer changes no state at all.
C34_WrongAnswerFrame ==
    [][/\ (PCheck /\ ~EqualsAnswer(practice.spelledWord, practice.question.answer)) =>
             /\ practice'.feedback.type = "incorrect"
             /\ practice' = [practice EXCEPT !.feedback = practice'.feedback]
             /\ UNCHANGED <<zombies, challenge, storage, leftover, gameMode, selectedDifficulty>>
       /\ (CCheck /\ ~EqualsAnswer(challenge.userAnswer, challenge.question.answer)) =>
             /\ challenge'.feedback.type = "incorrect"
             /\ challenge' = [challenge EXCEPT !.feedback = challenge'.feedback,
                                               !.userAnswer = <<>>]
             /\ UNCHANGED <<practice, zombies, storage, leftover, gameMode, selectedDifficulty>>
       /\ (gameMode = "CHALLENGE" /\ trim(challenge.userAnswer) = <<>>) =>
             handleCheckAnswer(challenge) = challenge]_vars

\* A wrong answer was checked after a hinted correct one whose timeout is
\* still to fire.
C34_Witness ==
    /\ gameMode = "CHALLENGE"
    /\ challenge.feedback.type = "incorrect"
    /\ challenge.userAnswer = <<>>
    /\ challenge.score = 5
    /\ challenge.hintUsed
    /\ challenge.timeouts = 1

(***************************************************************************)
(* Properties of the App.                                                  *)
(***************************************************************************)
\* The changes of mode the claim lists.
ListedTransitions ==
    { <<"MENU", "DIFFICULTY_SELECTION">>, <<"DIFFICULTY_SELECTION", "MENU">>,
      <<"DIFFICULTY_SELECTION", "PRACTICE">>, <<"PRACTICE", "DIFFICULTY_SELECTION">>,
      <<"MENU", "CHALLENGE">>, <<"CHALLENGE", "MENU">> }

ModeChangesAsListed ==
    gameMode' # gameMode => <<gameMode, gameMode'>> \in ListedTransitions

\* PracticeMode is mounted by handleSelectDifficulty, with the difficulty
\* selected in that step.
PracticeEnteredBySelection ==
    (gameMode' = "PRACTICE" /\ gameMode # "PRACTICE") =>
        /\ gameMode = "DIFFICULTY_SELECTION"
        /\ practice'.difficulty = selectedDifficulty'
        /\ \A k \in 1..Len(practice'.calls) :
                practice'.calls[k].difficulty = selectedDifficulty'

\* A call made by the mounted controller is at the difficulty selected last.
MountedRequestsSelected ==
    (InPractice /\ Len(practice'.calls) > Len(practice.calls)) =>
        practice'.calls[Len(practice'.calls)].difficulty = selectedDifficulty

\* A call made by a controller that was left is at the difficulty selected last.
LeftRequestsSelected ==
    (ZTimeoutFires /\ Len(zombies') = Len(zombies)) =>
        \A i \in 1..Len(zombies) :
            Len(zombies'[i].calls) > Len(zombies[i].calls) =>
                zombies'[i].calls[Len(zombies'[i].calls)].difficulty = selectedDifficulty

\* C35: the mode changes only along the six listed transitions; PRACTICE is
\* entered only by selecting a difficulty; and every question a practice
\* controller requests is requested at the difficulty selected last.
C35_ModesAndDifficulty ==
    [][/\ ModeChangesAsListed
       /\ PracticeEnteredBySelection
       /\ MountedRequestsSelected
       /\ LeftRequestsSelected]_vars

====
